---- MODULE Spec2Model ----
(***************************************************************************)
(* Model of parts/dimensions.py: the Dimension class, which records per-   *)
(* workspace deductions of a grid size and checks them for consistency,    *)
(* and its Joker subclass, which accepts everything.                       *)
(*                                                                         *)
(* Python values are modelled as follows.  A dict is a function whose      *)
(* DOMAIN is the set of keys present.  A list is a sequence; Python index  *)
(* k is TLA+ index k+1, so the tuple (value, who) has value at [1] and who *)
(* at [2].  The outcome of a call is a record: type "return" with the      *)
(* returned value, or the class of the raised exception with its message.  *)
(* A formatted string is the sequence of its pieces.                       *)
(***************************************************************************)
EXTENDS Integers, Sequences, FiniteSets, TLC

\* ---- bounds of the model ----
\* largest deduced value, and the number of add_deduction calls on p
MaxValue == 1
MaxDeductions == 3

\* Workspaces and source labels are opaque to the code: a workspace is only
\* used as a dict key and a label is only stored and formatted.
Contexts == {"ctx1", "ctx2"}
Values == 0..MaxValue
Labels == {"p_grid", "t_field"}

VARIABLES p, joker, call, result

vars == <<p, joker, call, result>>

\* ---- Python values ----
None == "None"

Return(v) == [type |-> "return", value |-> v]

Raise(cls, msg) == [type |-> cls, value |-> msg]

Str(s) == [t |-> "str", v |-> s]

List(l) == [t |-> "list", v |-> l]

\* a + b where a is a str: concatenation if b is a str, TypeError otherwise
str_add(a, b) ==
    IF b.t = "str"
        THEN Return(Str(a.v \o b.v))
        ELSE Raise("TypeError", <<"can only concatenate str (not \"", b.t, "\") to str">>)

DictSet(d, k, v) == [x \in (DOMAIN d) \cup {k} |-> IF x = k THEN v ELSE d[x]]

EmptyDict == [x \in {} |-> <<>>]

\* ---- messages ----
NoDeductionsMsg == <<"No deductions have been made for the given workspace.">>

NoValueMsg == <<"No value for dimension of the {0} has been deduced.">>

JokerMsg == <<"Can't get the value of a joker dimension.">>

InconsistenciesHeader(name) ==
    <<"During deduction of the dimensions of the ", name,
      " the following inconsistencies were encountered:\\n">>

\* s.format(*ds[i], *ds[j])
FormatPair(di, dj) ==
    <<"- ", di[1], " deduced from ", di[2], " and ", dj[1], " deduce from ", dj[2], " \\n">>

\* ---- Dimension ----
Dimension(name) == [name |-> name, deductions |-> EmptyDict]

\* variants of add_deduction with a plausible slip
add_deduction_shared(self, ws, value, who) ==
    [self EXCEPT !.deductions =
        [x \in (DOMAIN @) \cup {ws} |->
            IF x \in DOMAIN @ THEN @[x] \o <<<<value, who>>>> ELSE <<<<value, who>>>>]]

add_deduction_prepend(self, ws, value, who) ==
    IF ws \notin DOMAIN self.deductions
        THEN [self EXCEPT !.deductions = DictSet(@, ws, <<<<value, who>>>>)]
        ELSE [self EXCEPT !.deductions = DictSet(@, ws, <<<<value, who>>>> \o @[ws])]

add_deduction_emptyfirst(self, ws, value, who) ==
    IF ws \notin DOMAIN self.deductions
        THEN [self EXCEPT !.deductions = DictSet(@, ws, <<>>)]
        ELSE [self EXCEPT !.deductions = DictSet(@, ws, @[ws] \o <<<<value, who>>>>)]

add_deduction_overwrite(self, ws, value, who) ==
    [self EXCEPT !.deductions = DictSet(@, ws, <<<<value, who>>>>)]

add_deduction(self, ws, value, who) ==
    IF ws \notin DOMAIN self.deductions
        THEN [self EXCEPT !.deductions = DictSet(@, ws, <<<<value, who>>>>)]
        ELSE [self EXCEPT !.deductions = DictSet(@, ws, @[ws] \o <<<<value, who>>>>)]

\* variant of the inner loop that compares the source labels
RECURSIVE InnerLoop_who(_, _, _)
InnerLoop_who(ds, i, j) ==
    IF j > Len(ds) THEN <<>>
    ELSE (IF ~(ds[i][2] = ds[j][2]) THEN <<<<i, j>>>> ELSE <<>>) \o InnerLoop_who(ds, i, j + 1)

RECURSIVE InnerLoop(_, _, _)
InnerLoop(ds, i, j) ==
    IF j > Len(ds) THEN <<>>
    ELSE (IF ~(ds[i][1] = ds[j][1]) THEN <<<<i, j>>>> ELSE <<>>) \o InnerLoop(ds, i, j + 1)

RECURSIVE OuterLoop(_, _)
OuterLoop(ds, i) ==
    IF i > Len(ds) THEN <<>>
    ELSE InnerLoop(ds, i, i + 1) \o OuterLoop(ds, i + 1)

inconsistencies(ds) == OuterLoop(ds, 1)

ls(ds) ==
    LET inc == inconsistencies(ds) IN
    [k \in 1..Len(inc) |-> FormatPair(ds[inc[k][1]], ds[inc[k][2]])]

\* variant of check that reads the list with a default instead of the guard
check_noguard(self, ws) ==
    LET ds == IF ws \in DOMAIN self.deductions THEN self.deductions[ws] ELSE <<>> IN
    IF Len(inconsistencies(ds)) > 0
        THEN Raise("TypeError", <<"can only concatenate str (not \"", "list", "\") to str">>)
        ELSE Return(None)

check(self, ws) ==
    IF ws \notin DOMAIN self.deductions
        THEN Raise("Exception", NoDeductionsMsg)
        ELSE LET ds == self.deductions[ws] IN
             IF Len(inconsistencies(ds)) > 0
                 THEN LET msg == str_add(Str(InconsistenciesHeader(self.name)), List(ls(ds))) IN
                      IF msg.type = "return"
                          THEN Raise("Exception", msg.value.v)
                          ELSE msg
                 ELSE Return(None)

\* variant of get_value that does not call check
get_value_nocheck(self, ws) ==
    IF ws \notin DOMAIN self.deductions THEN Raise("KeyError", <<ws>>)
    ELSE LET ds == self.deductions[ws] IN
         IF Len(ds) > 0
             THEN Return(ds[1][1])
             ELSE Raise("Exception", NoValueMsg)

get_value(self, ws) ==
    LET c == check(self, ws) IN
    IF c.type # "return" THEN c
    ELSE IF ws \notin DOMAIN self.deductions THEN Raise("KeyError", <<ws>>)
    ELSE LET ds == self.deductions[ws] IN
         IF Len(ds) > 0
             THEN Return(ds[1][1])
             ELSE Raise("Exception", NoValueMsg)

\* ---- Joker ----
Joker(name) == [name |-> name, deductions |-> EmptyDict]

Joker_add_deduction(self, ws, value, who) == self

\* variant: check not overridden
Joker_check_inherited(self, ws) == check(self, ws)

Joker_check(self, ws) == Return(None)

Joker_get_value(self, ws) == Raise("Exception", JokerMsg)

\* ---- the error kinds, by what is raised ----
IsNoDeductionError(o) ==
    o.type = "Exception" /\ (o.value = NoDeductionsMsg \/ o.value = NoValueMsg)

IsInconsistentDimensionError(o) ==
    /\ o.type = "Exception"
    /\ Len(o.value) > 0
    /\ o.value[1] = "During deduction of the dimensions of the "

IsUnsupportedOperationError(o) ==
    o.type = "Exception" /\ o.value = JokerMsg

Failed(o) == o.type # "return"

\* ---- state machine ----
RECURSIVE SumLen(_, _)
SumLen(d, S) ==
    IF S = {} THEN 0
    ELSE LET k == CHOOSE x \in S : TRUE IN Len(d[k]) + SumLen(d, S \ {k})

TotalDeductions(self) == SumLen(self.deductions, DOMAIN self.deductions)

Init ==
    /\ p = Dimension("pressure grid")
    /\ joker = Joker("joker")
    /\ call = [obj |-> "none", op |-> "__init__", args |-> <<>>]
    /\ result = Return(None)

AddDeduction(ws, value, who) ==
    /\ TotalDeductions(p) < MaxDeductions
    /\ p' = add_deduction(p, ws, value, who)
    /\ call' = [obj |-> "p", op |-> "add_deduction", args |-> <<ws, value, who>>]
    /\ result' = Return(None)
    /\ UNCHANGED joker

\* variant of the check step that creates the entry it looks up
Check_setdefault(ws) ==
    /\ result' = check(p, ws)
    /\ call' = [obj |-> "p", op |-> "check", args |-> <<ws>>]
    /\ p' = IF ws \in DOMAIN p.deductions THEN p
            ELSE [p EXCEPT !.deductions = DictSet(@, ws, <<>>)]
    /\ UNCHANGED joker

Check(ws) ==
    /\ result' = check(p, ws)
    /\ call' = [obj |-> "p", op |-> "check", args |-> <<ws>>]
    /\ UNCHANGED <<p, joker>>

GetValue(ws) ==
    /\ result' = get_value(p, ws)
    /\ call' = [obj |-> "p", op |-> "get_value", args |-> <<ws>>]
    /\ UNCHANGED <<p, joker>>

JokerAddDeduction(ws, value, who) ==
    /\ joker' = Joker_add_deduction(joker, ws, value, who)
    /\ call' = [obj |-> "joker", op |-> "add_deduction", args |-> <<ws, value, who>>]
    /\ result' = Return(None)
    /\ UNCHANGED p

JokerCheck(ws) ==
    /\ result' = Joker_check(joker, ws)
    /\ call' = [obj |-> "joker", op |-> "check", args |-> <<ws>>]
    /\ UNCHANGED <<p, joker>>

JokerGetValue(ws) ==
    /\ result' = Joker_get_value(joker, ws)
    /\ call' = [obj |-> "joker", op |-> "get_value", args |-> <<ws>>]
    /\ UNCHANGED <<p, joker>>

Next ==
    \/ \E ws \in Contexts, value \in Values, who \in Labels : AddDeduction(ws, value, who)
    \/ \E ws \in Contexts : Check(ws)
    \/ \E ws \in Contexts : GetValue(ws)
    \/ \E ws \in Contexts, value \in Values, who \in Labels : JokerAddDeduction(ws, value, who)
    \/ \E ws \in Contexts : JokerCheck(ws)
    \/ \E ws \in Contexts : JokerGetValue(ws)

Spec == Init /\ [][Next]_vars

TypeOK ==
    /\ p.name = "pressure grid"
    /\ joker = Joker("joker")
    /\ DOMAIN p.deductions \subseteq Contexts
    /\ \A ws \in DOMAIN p.deductions :
           \A k \in 1..Len(p.deductions[ws]) : p.deductions[ws][k] \in Values \X Labels
    /\ call.obj \in {"none", "p", "joker"}
\* ---- helpers for the properties ----
OnP(op) == call.obj = "p" /\ call.op = op

OnJoker(op) == call.obj = "joker" /\ call.op = op

Observed(self, ws) == ws \in DOMAIN self.deductions

AllValue(ds, v) == \A k \in 1..Len(ds) : ds[k][1] = v

Conflicting(self, ws) ==
    /\ Observed(self, ws)
    /\ \E i, j \in 1..Len(self.deductions[ws]) :
           self.deductions[ws][i][1] # self.deductions[ws][j][1]

ReportLists(msg, di, dj) ==
    \E k \in 1..Len(msg) :
        /\ k + Len(FormatPair(di, dj)) - 1 <= Len(msg)
        /\ SubSeq(msg, k, k + Len(FormatPair(di, dj)) - 1) = FormatPair(di, dj)

\* C1: when every deduction recorded under a context carries the same value
\* v (labels may differ), check on that context returns normally and
\* get_value returns v.
C1_SameValueConsistent ==
    \A ws \in DOMAIN p.deductions : \A v \in Values :
        AllValue(p.deductions[ws], v) =>
            /\ check(p, ws).type = "return"
            /\ LET g == get_value(p, ws) IN g.type = "return" /\ g.value = v
            /\ (OnP("check") /\ call.args[1] = ws) => result.type = "return"
            /\ (OnP("get_value") /\ call.args[1] = ws) =>
                   (result.type = "return" /\ result.value = v)

C1_Witness ==
    /\ OnP("get_value")
    /\ Observed(p, call.args[1])
    /\ Len(p.deductions[call.args[1]]) >= 2
    /\ p.deductions[call.args[1]][1][2] # p.deductions[call.args[1]][2][2]
    /\ AllValue(p.deductions[call.args[1]], p.deductions[call.args[1]][1][1])
    /\ result.type = "return"

\* C2: when two deductions under a context hold different values, check
\* fails with InconsistentDimensionError whose report lists every
\* mismatching pair with the value and label of both sides.
C2_ConflictReported ==
    (OnP("check") /\ Conflicting(p, call.args[1])) =>
        /\ IsInconsistentDimensionError(result)
        /\ ~IsNoDeductionError(result)
        /\ \A i, j \in 1..Len(p.deductions[call.args[1]]) :
               (i < j /\ p.deductions[call.args[1]][i][1] # p.deductions[call.args[1]][j][1]) =>
                   ReportLists(result.value, p.deductions[call.args[1]][i],
                               p.deductions[call.args[1]][j])

\* C3: for a context on which add_deduction was never called, check and
\* get_value both fail with NoDeductionError, whatever other contexts hold.
C3_UnobservedFails ==
    \A ws \in Contexts \ DOMAIN p.deductions :
        /\ IsNoDeductionError(check(p, ws))
        /\ IsNoDeductionError(get_value(p, ws))
        /\ ((OnP("check") \/ OnP("get_value")) /\ call.args[1] = ws) =>
               IsNoDeductionError(result)

C3_Witness ==
    /\ OnP("get_value")
    /\ ~Observed(p, call.args[1])
    /\ \E other \in Contexts : Conflicting(p, other)
    /\ IsNoDeductionError(result)

\* C4: get_value agrees with check: when check fails get_value fails with
\* the same error and returns nothing; when check succeeds get_value
\* returns the value of the first deduction of the context.
C4_GetValueAgreesWithCheck ==
    \A ws \in Contexts :
        LET c == check(p, ws)
            g == get_value(p, ws)
        IN /\ Failed(c) => (g.type = c.type /\ g.value = c.value)
           /\ ~Failed(c) => (g.type = "return" /\ g.value = p.deductions[ws][1][1])
           /\ Conflicting(p, ws) => Failed(g)
           /\ (OnP("get_value") /\ call.args[1] = ws) =>
                  /\ Failed(c) => (result.type = c.type /\ result.value = c.value)
                  /\ ~Failed(c) =>
                         (result.type = "return" /\ result.value = p.deductions[ws][1][1])

C4_Witness ==
    /\ OnP("get_value")
    /\ Conflicting(p, call.args[1])
    /\ Failed(result)
    /\ result.type = check(p, call.args[1]).type

\* C5: on the Joker, check never fails and get_value always fails with
\* UnsupportedOperationError, in every state and for every context.
C5_JokerInert ==
    /\ \A ws \in Contexts :
           /\ ~Failed(Joker_check(joker, ws))
           /\ IsUnsupportedOperationError(Joker_get_value(joker, ws))
    /\ OnJoker("check") => ~Failed(result)
    /\ OnJoker("add_deduction") => ~Failed(result)
    /\ OnJoker("get_value") => IsUnsupportedOperationError(result)

C5_Witness ==
    /\ OnJoker("check")
    /\ ~Failed(result)
    /\ \E ws \in Contexts : Conflicting(p, ws)

\* C6: add_deduction on one context leaves the deduction list of every
\* other context, and so the outcome of check and get_value on it,
\* unchanged; a conflict under one context never makes check fail on another.
C6_ContextsPartitioned ==
    [][\A ws \in Contexts :
          (call'.obj = "p" /\ call'.op = "add_deduction" /\ call'.args[1] # ws) =>
              /\ Observed(p', ws) <=> Observed(p, ws)
              /\ Observed(p, ws) => p'.deductions[ws] = p.deductions[ws]
              /\ check(p', ws).type = check(p, ws).type
              /\ LET g == get_value(p, ws)
                     h == get_value(p', ws)
                 IN h.type = g.type /\ h.value = g.value]_vars

C6_Witness ==
    /\ OnP("add_deduction")
    /\ Conflicting(p, call.args[1])
    /\ \E ws \in Contexts :
           /\ ws # call.args[1]
           /\ Observed(p, ws)
           /\ check(p, ws).type = "return"

\* C7: check and get_value change no recorded deduction, whether they
\* return or fail, and a repeated check gives the same outcome.
C7_QueriesArePure ==
    [][/\ (call'.op \in {"check", "get_value"}) => (p' = p /\ joker' = joker)
       /\ (call.op = "check" /\ call'.op = "check" /\ call'.obj = call.obj
               /\ call'.args = call.args) =>
              (result'.type = result.type /\ result'.value = result.value)]_vars

C7_Witness ==
    /\ OnP("check")
    /\ ~Observed(p, call.args[1])
    /\ Failed(result)
    /\ DOMAIN p.deductions # {}

\* C8: add_deduction never fails; a context without entry gets the
\* one-element list, otherwise the pair is appended at the end of the old list.
C8_AddDeductionAppends ==
    [][(call'.obj = "p" /\ call'.op = "add_deduction") =>
          LET ws == call'.args[1]
              d  == <<call'.args[2], call'.args[3]>>
          IN /\ ~Failed(result')
             /\ Observed(p', ws)
             /\ ~Observed(p, ws) => p'.deductions[ws] = <<d>>
             /\ Observed(p, ws) =>
                    /\ Len(p'.deductions[ws]) = Len(p.deductions[ws]) + 1
                    /\ SubSeq(p'.deductions[ws], 1, Len(p.deductions[ws])) = p.deductions[ws]
                    /\ p'.deductions[ws][Len(p'.deductions[ws])] = d]_vars

C8_Witness ==
    /\ OnP("add_deduction")
    /\ Len(p.deductions[call.args[1]]) >= 2
    /\ p.deductions[call.args[1]][1] # p.deductions[call.args[1]][2]

\* C9: every context with an entry has a non-empty deduction list, so
\* get_value never raises its empty-list error.
C9_NoEmptyEntry ==
    /\ \A ws \in DOMAIN p.deductions : Len(p.deductions[ws]) > 0
    /\ \A ws \in Contexts :
           LET g == get_value(p, ws) IN ~(g.type = "Exception" /\ g.value = NoValueMsg)
    /\ ~(result.type = "Exception" /\ result.value = NoValueMsg)

C9_Witness ==
    /\ OnP("get_value")
    /\ Observed(p, call.args[1])
    /\ Len(p.deductions[call.args[1]]) = 1
    /\ result.type = "return"

\* C10: a context with a deduction never becomes unobserved again, and
\* once its values conflict, check and get_value fail in every later state.
C10_OnlyForward ==
    /\ [][\A ws \in DOMAIN p.deductions :
             /\ Observed(p', ws)
             /\ \/ p'.deductions[ws] = p.deductions[ws]
                \/ /\ Len(p'.deductions[ws]) > Len(p.deductions[ws])
                   /\ SubSeq(p'.deductions[ws], 1, Len(p.deductions[ws])) = p.deductions[ws]
             /\ Conflicting(p, ws) => Conflicting(p', ws)]_vars
    /\ [](\A ws \in Contexts :
             Conflicting(p, ws) =>
                 /\ Failed(check(p, ws))
                 /\ Failed(get_value(p, ws))
                 /\ ((OnP("check") \/ OnP("get_value")) /\ call.args[1] = ws) =>
                        Failed(result))

C10_Witness ==
    /\ OnP("check")
    /\ Observed(p, call.args[1])
    /\ Len(p.deductions[call.args[1]]) = 3
    /\ p.deductions[call.args[1]][1][1] # p.deductions[call.args[1]][2][1]
    /\ p.deductions[call.args[1]][3][1] = p.deductions[call.args[1]][1][1]
    /\ Failed(result)
====
